---- MODULE Spec2Model ----
(***************************************************************************)
(* The 20-questions game server: the in-memory GameManager sessions, the   *)
(* Gemini oracle call (the only suspension point), and the HTTP, /ws and   *)
(* /mcp handlers that drive the sessions.                                  *)
(*                                                                         *)
(* A handler is an operator from the state and the request to a result:    *)
(* the session map it leaves, the oracle call it suspends on (if any) and  *)
(* the messages it sends.  A handler that awaits the oracle is split at    *)
(* the await: the part before it is one action, the continuation another,  *)
(* and the suspended call sits in inflight in between.                     *)
(***************************************************************************)
EXTENDS Integers, Sequences, FiniteSets, Bags, TLC

\* ---------------------------------------------------------------- constants
MAX_QUESTIONS == 20

\* ------------------------------------------------------------------- bounds
MaxInflight == 2      \* handlers suspended on an oracle call at one time
MaxClock == 2         \* Date.now() ranges over 1..MaxClock
MaxFailed == 1        \* entries of data/failed_answers.json
VariedRounds == 1     \* opening rounds in which the oracle's texts vary, and
                      \* closing rounds in which the clients' answers vary
MaxMessages == 3      \* inbound messages and requests handled under WireSpec

SessionIds == {"s1"}           \* ids uuidv4() hands out
UnknownIds == {"sX"}           \* an id no session ever has
AllIds == SessionIds \cup UnknownIds

Undefined == "undefined"       \* a field that is absent
Null == "null"

\* JavaScript truthiness of an optional string
Falsy(x) == x \in {Undefined, Null, ""}

AnswerType == {"yes", "no", "maybe", "unknown"}

\* the answers a client sends for a session with n recorded pairs
AnswerInputs(n) == IF n >= MAX_QUESTIONS - VariedRounds THEN {"yes", "no"} ELSE {"yes"}

VARIABLES
    sessions,    \* GameManager.sessions: id -> GameSession
    inflight,    \* bag of handlers suspended on gemini.nextStep
    failed,      \* contents of data/failed_answers.json
    concluded,   \* ids for which an end event reached endSession
    connected,   \* adapters ("ws", "mcp") whose connection is open
    orphans,     \* suspended handlers whose connection has closed since
    received,    \* inbound messages and requests handled so far
    last         \* the last exchange: what came in and what was sent for it

vars == <<sessions, inflight, failed, concluded, connected, orphans, received, last>>

\* the part of the state that only WireSpec moves
wire == <<connected, orphans, received, last>>

\* ------------------------------------------------------------- GameManager
GameSession(t) ==
    [qas |-> <<>>, lastQuestion |-> Undefined, currentGuess |-> Undefined,
     startedAt |-> t, endedAt |-> 0, done |-> FALSE]

QA(question, answer) == [question |-> question, answer |-> answer]

\* mutant of applyAnswer: the pair is put in front of the history
applyAnswer_Unshift(session, question, answer) ==
    LET pushed == <<QA(question, answer)>> \o session.qas
    IN [session EXCEPT !.qas = pushed,
                       !.lastQuestion = Undefined,
                       !.done = IF Len(pushed) >= MAX_QUESTIONS THEN TRUE ELSE @]

\* mutant of applyAnswer: the budget test is > instead of >=
applyAnswer_OffByOne(session, question, answer) ==
    LET pushed == Append(session.qas, QA(question, answer))
    IN [session EXCEPT !.qas = pushed,
                       !.lastQuestion = Undefined,
                       !.done = IF Len(pushed) > MAX_QUESTIONS THEN TRUE ELSE @]

applyAnswer(session, question, answer) ==
    LET pushed == Append(session.qas, QA(question, answer))
    IN [session EXCEPT !.qas = pushed,
                       !.lastQuestion = Undefined,
                       !.done = IF Len(pushed) >= MAX_QUESTIONS THEN TRUE ELSE @]

setLastQuestion(session, question) == [session EXCEPT !.lastQuestion = question]

setGuess(session, guess) == [session EXCEPT !.currentGuess = guess]

\* mutant of endSession: the timestamp is written, done is not
endSession_NoDone(session, t) == [session EXCEPT !.endedAt = t]

endSession(session, t) == [session EXCEPT !.done = TRUE, !.endedAt = t]

\* getSession(id) is sessions[id] when Known(id), undefined otherwise
Known(id) == id \in DOMAIN sessions

\* the session map with sessions[id] replaced (the handlers mutate in place)
Put(id, session) ==
    [i \in DOMAIN sessions \cup {id} |-> IF i = id THEN session ELSE sessions[i]]

\* createSession: a fresh id
FreshIds == SessionIds \ DOMAIN sessions

\* ------------------------------------------------------------------- clock
Stamps ==
    {sessions[i].startedAt : i \in DOMAIN sessions}
      \cup {sessions[i].endedAt : i \in DOMAIN sessions}
      \cup {failed[k].timestamp : k \in 1..Len(failed)}

\* Date.now(): never earlier than a time already recorded; time starts at 1
DateNow ==
    IF Stamps = {} THEN {1} ELSE {t \in 1..MaxClock : \A u \in Stamps : t >= u}

\* ------------------------------------------------------------- persistence
appendFailedAnswer(list, answer, t) ==
    Append(list, [answer |-> answer, timestamp |-> t])

\* ------------------------------------------------------------------ oracle
Step(question, guess) == [question |-> question, guess |-> guess, threw |-> FALSE]

Threw == [question |-> Undefined, guess |-> Undefined, threw |-> TRUE]

\* GeminiClient.nextStep: {question}, {guess}, either possibly empty after
\* trim(), or a rejection of generateContent ("Qa" stands for every non-empty
\* question, the generic one of an unparsable reply included)
GeminiQuestions(n) == IF n < VariedRounds THEN {"Qa", ""} ELSE {"Qa"}

GeminiGuesses(n) == IF n < VariedRounds THEN {"Ga", ""} ELSE {"Ga"}

nextStepResults(session) ==
    {Step(q, Undefined) : q \in GeminiQuestions(Len(session.qas))}
      \cup {Step(Undefined, g) : g \in GeminiGuesses(Len(session.qas))}
      \cup {Threw}

\* ------------------------------------------------- calls, results, messages
\* rpc is the JSON-RPC id of the /mcp request whose handler awaits the call
\* (handleToolCall keeps `message` in its closure); Undefined elsewhere
Call(adapter, op, sid, at) ==
    [adapter |-> adapter, op |-> op, sid |-> sid, at |-> at, rpc |-> Undefined]

NoCall == Call("none", "none", Undefined, "none")

Msg(code, type, question, guess, done, error) ==
    [code |-> code, type |-> type, question |-> question, guess |-> guess,
     done |-> done, error |-> error, id |-> Undefined]

\* what a handler leaves: the session map, the oracle call it now awaits,
\* the messages it sent, the failed-answers store and the ended sessions
Result(ss, call, out) ==
    [sessions |-> ss, call |-> call, out |-> out, failed |-> failed,
     concluded |-> concluded]

Suspend(call) == inflight (+) SetToBag({call})
Resume(call) == inflight (-) SetToBag({call})
CanSuspend == BagCardinality(inflight) < MaxInflight
Suspended(adapter, op, at) ==
    {c \in BagToSet(inflight) : c.adapter = adapter /\ c.op = op /\ c.at = at}

\* what is observed of one step: the adapter, the kind of the inbound
\* message (or "resume", "connect", "close"), the session id it names, the
\* messages sent, (rpc) the JSON-RPC id of the request being served and,
\* for a resume, (step) what the oracle call returned
Exchange(adapter, kind, sid, out) ==
    [adapter |-> adapter, kind |-> kind, sid |-> sid, out |-> out, rpc |-> Undefined,
     step |-> Step(Undefined, Undefined)]

NoExchange == Exchange("none", "none", Undefined, << >>)

\* a handler runs up to its await or to its end
Begin(r) ==
    /\ sessions' = r.sessions
    /\ failed' = r.failed
    /\ Len(r.failed) <= MaxFailed
    /\ concluded' = r.concluded
    /\ IF r.call = NoCall
       THEN UNCHANGED inflight
       ELSE CanSuspend /\ inflight' = Suspend(r.call)
    /\ UNCHANGED wire

\* the continuation of the suspended call c runs to its end
Finish(c, r) ==
    /\ sessions' = r.sessions
    /\ inflight' = Resume(c)
    /\ UNCHANGED <<failed, concluded>>
    /\ UNCHANGED wire

Init ==
    /\ sessions = << >>
    /\ inflight = EmptyBag
    /\ failed = << >>
    /\ concluded = {}
    /\ connected = {"ws", "mcp"}
    /\ orphans = EmptyBag
    /\ received = 0
    /\ last = NoExchange
\* ------------------------------------------------------------ HTTP adapter
HttpJson(code, question, guess, done) == <<Msg(code, "json", question, guess, done, Undefined)>>
HttpFail(code, message) == <<Msg(code, "json", Undefined, Undefined, Undefined, message)>>

\* computeNext, line 83: is the oracle asked?
computeNextAsks(session) == Falsy(session.lastQuestion) /\ ~session.done

\* computeNext, lines 85-91: the oracle's step applied to the session
computeNextApply(session, step) ==
    IF ~Falsy(step.guess)
    THEN [session |-> setGuess(session, step.guess),
          question |-> Undefined, guess |-> step.guess, done |-> session.done]
    ELSE LET q == IF Falsy(step.question) THEN "Is it man-made?" ELSE step.question
         IN [session |-> setLastQuestion(session, q),
             question |-> q, guess |-> Undefined, done |-> session.done]

\* computeNext, line 94: no oracle call
computeNextKeep(session) ==
    [session |-> session, question |-> session.lastQuestion,
     guess |-> session.currentGuess, done |-> session.done]

\* POST /start up to the await inside computeNext
postStart(id, t) ==
    LET session == GameSession(t) IN
    IF computeNextAsks(session)
    THEN Result(Put(id, session), Call("http", "start", id, "computeNext"), << >>)
    ELSE Result(Put(id, session), NoCall,
                HttpJson(200, computeNextKeep(session).question, Undefined, Undefined))

\* POST /start after the await: res.json({sessionId, question}) or the catch
postStartResume(c, step) ==
    IF step.threw
    THEN Result(sessions, NoCall, HttpFail(500, "oracle"))
    ELSE LET r == computeNextApply(sessions[c.sid], step)
         IN Result(Put(c.sid, r.session), NoCall,
                   HttpJson(200, r.question, Undefined, Undefined))

\* POST /answer up to the await of gemini.nextStep (lines 115-124 / 130)
postAnswer(id, answer) ==
    IF answer \notin AnswerType \/ id = Undefined
    THEN Result(sessions, NoCall, HttpFail(400, "Invalid input"))
    ELSE IF ~Known(id)
    THEN Result(sessions, NoCall, HttpFail(404, "Session not found"))
    ELSE IF Falsy(sessions[id].lastQuestion)
    THEN Result(sessions, NoCall, HttpFail(400, "No pending question"))
    ELSE LET session == applyAnswer(sessions[id], sessions[id].lastQuestion, answer)
         IN Result(Put(id, session),
                   Call("http", "answer", id, IF session.done THEN "final" ELSE "next"),
                   << >>)

\* POST /answer, lines 124-127: the final guess of a session that is done
postAnswerFinal(c, step, t) ==
    IF step.threw
    THEN Result(sessions, NoCall, HttpFail(500, "oracle"))
    ELSE LET guessed == IF ~Falsy(step.guess)
                        THEN setGuess(sessions[c.sid], step.guess)
                        ELSE sessions[c.sid]
             session == endSession(guessed, t)
         IN Result(Put(c.sid, session), NoCall,
                   HttpJson(200, Undefined, session.currentGuess, "true"))

\* POST /answer, lines 130-137: the next question or a guess
postAnswerNext(c, step) ==
    IF step.threw
    THEN Result(sessions, NoCall, HttpFail(500, "oracle"))
    ELSE IF ~Falsy(step.guess)
    THEN Result(Put(c.sid, setGuess(sessions[c.sid], step.guess)), NoCall,
                HttpJson(200, Undefined, step.guess, "false"))
    ELSE LET q == IF Falsy(step.question)
                  THEN "Is it larger than a breadbox?" ELSE step.question
         IN Result(Put(c.sid, setLastQuestion(sessions[c.sid], q)), NoCall,
                   HttpJson(200, q, Undefined, "false"))

\* mutant of GuessOrNull: the absent guess is reported as it is
GuessOrNull_Undefined(session) == session.currentGuess

\* session.currentGuess ?? null
GuessOrNull(session) ==
    IF session.currentGuess = Undefined THEN Null ELSE session.currentGuess

\* mutant of getGuess: the guess is reported and then forgotten
getGuess_Forgets(id) ==
    IF ~Known(id)
    THEN Result(sessions, NoCall, HttpFail(404, "Session not found"))
    ELSE Result(Put(id, setGuess(sessions[id], Undefined)), NoCall,
                HttpJson(200, Undefined, GuessOrNull(sessions[id]), Undefined))

\* GET /guess
getGuess(id) ==
    IF ~Known(id)
    THEN Result(sessions, NoCall, HttpFail(404, "Session not found"))
    ELSE Result(sessions, NoCall,
                HttpJson(200, Undefined, GuessOrNull(sessions[id]), Undefined))

\* the end requests clients send: outcome and the optional actualAnswer
Outcomes == {"ai_won", "user_won"}
ActualAnswers == {Undefined, "cat"}

\* mutant of Ended: the named answer is kept whatever the outcome
Ended_AnyOutcome(id, outcome, actualAnswer, t, t2, out) ==
    [sessions |-> Put(id, endSession(sessions[id], t)),
     call |-> NoCall,
     out |-> out,
     failed |-> IF ~Falsy(actualAnswer)
                THEN appendFailedAnswer(failed, actualAnswer, t2)
                ELSE failed,
     concluded |-> concluded \cup {id}]

\* lines 160-163, 194-195, 238-239: endSession, then the failed answer is kept
\* when the user won and named the answer
Ended(id, outcome, actualAnswer, t, t2, out) ==
    [sessions |-> Put(id, endSession(sessions[id], t)),
     call |-> NoCall,
     out |-> out,
     failed |-> IF outcome = "user_won" /\ ~Falsy(actualAnswer)
                THEN appendFailedAnswer(failed, actualAnswer, t2)
                ELSE failed,
     concluded |-> concluded \cup {id}]

\* POST /end; t and t2 are the two readings of Date.now()
postEnd(id, outcome, actualAnswer, t, t2) ==
    IF outcome \notin Outcomes \/ id = Undefined
    THEN Result(sessions, NoCall, HttpFail(400, "Invalid input"))
    ELSE IF ~Known(id)
    THEN Result(sessions, NoCall, HttpFail(404, "Session not found"))
    ELSE Ended(id, outcome, actualAnswer, t, t2,
               HttpJson(200, Undefined, Undefined, Undefined))

BadAnswer == "sometimes"
HttpAnswerInputs(id) ==
    (IF Known(id) THEN AnswerInputs(Len(sessions[id].qas)) ELSE {"yes"}) \cup {BadAnswer}

\* the readings of Date.now() of one end handler: endSession reads it once,
\* appendFailedAnswer a second time; a handler that reads none gets <<0, 0>>
EndClock(id, outcome, actualAnswer) ==
    IF ~Known(id) \/ outcome \notin Outcomes
    THEN {<<0, 0>>}
    ELSE IF outcome = "user_won" /\ ~Falsy(actualAnswer)
    THEN {tt \in DateNow \X (1..MaxClock) : tt[1] <= tt[2]}
    ELSE {<<t, 0>> : t \in DateNow}

HttpStart == \E id \in FreshIds, t \in DateNow : Begin(postStart(id, t))

HttpStartResume ==
    \E c \in Suspended("http", "start", "computeNext") :
      \E step \in nextStepResults(sessions[c.sid]) : Finish(c, postStartResume(c, step))

HttpAnswer == \E id \in AllIds : \E answer \in HttpAnswerInputs(id) : Begin(postAnswer(id, answer))

HttpAnswerFinal ==
    \E c \in Suspended("http", "answer", "final") :
      \E step \in nextStepResults(sessions[c.sid]), t \in DateNow :
        Finish(c, postAnswerFinal(c, step, t))

HttpAnswerNext ==
    \E c \in Suspended("http", "answer", "next") :
      \E step \in nextStepResults(sessions[c.sid]) : Finish(c, postAnswerNext(c, step))

HttpGuess == \E id \in AllIds : Begin(getGuess(id))

HttpEnd ==
    \E id \in AllIds, outcome \in Outcomes \cup {"draw"}, actualAnswer \in ActualAnswers :
      \E tt \in EndClock(id, outcome, actualAnswer) :
        Begin(postEnd(id, outcome, actualAnswer, tt[1], tt[2]))

NextHttp ==
    \/ HttpStart
    \/ HttpStartResume
    \/ HttpAnswer
    \/ HttpAnswerFinal
    \/ HttpAnswerNext
    \/ HttpGuess
    \/ HttpEnd

\* -------------------------------------------------------------- /ws adapter
WsMsg(type, question, guess, done) == Msg(0, type, question, guess, done, Undefined)
WsError(message) == <<Msg(0, "error", Undefined, Undefined, Undefined, message)>>

\* mutant of nextStepAsks: the oracle is not asked while a call is in flight
nextStepAsks_Locked(session) ==
    Falsy(session.lastQuestion) /\ ~session.done /\ inflight = EmptyBag

\* handlers.nextStep, line 178: is the oracle asked?
nextStepAsks(session) == Falsy(session.lastQuestion) /\ ~session.done

\* handlers.nextStep, lines 180-186
nextStepApply(session, step) ==
    IF ~Falsy(step.guess)
    THEN [session |-> setGuess(session, step.guess),
          question |-> Undefined, guess |-> step.guess, done |-> session.done]
    ELSE LET q == IF Falsy(step.question)
                  THEN "Is it commonly found indoors?" ELSE step.question
         IN [session |-> setLastQuestion(session, q),
             question |-> q, guess |-> Undefined, done |-> session.done]

\* handlers.nextStep, line 189
nextStepKeep(session) ==
    [session |-> session, question |-> session.lastQuestion,
     guess |-> session.currentGuess, done |-> session.done]

\* case "start", lines 149-153: what is sent for a step
WsStartSends(r) ==
    IF ~Falsy(r.question)
    THEN <<WsMsg("question", r.question, Undefined, Undefined)>>
    ELSE IF ~Falsy(r.guess)
    THEN <<WsMsg("guess", Undefined, r.guess, Undefined)>>
    ELSE << >>

\* case "answer", lines 160-162: what is sent for a step
WsAnswerSends(r) ==
    (IF ~Falsy(r.question)
     THEN <<WsMsg("question", r.question, Undefined, Undefined)>> ELSE << >>)
    \o (IF ~Falsy(r.guess)
        THEN <<WsMsg("guess", Undefined, r.guess, Undefined)>> ELSE << >>)
    \o (IF r.done
        THEN <<WsMsg("end", Undefined, Undefined, "true")>> ELSE << >>)

\* {type: "start"} up to the await inside handlers.nextStep
wsStart(id, t) ==
    LET session == GameSession(t) IN
    IF nextStepAsks(session)
    THEN Result(Put(id, session), Call("ws", "start", id, "nextStep"), << >>)
    ELSE Result(Put(id, session), NoCall, WsStartSends(nextStepKeep(session)))

\* {type: "start"} after the await
wsStartResume(c, step) ==
    IF step.threw
    THEN Result(sessions, NoCall, WsError("oracle"))
    ELSE LET r == nextStepApply(sessions[c.sid], step)
         IN Result(Put(c.sid, r.session), NoCall, WsStartSends(r))

\* {type: "answer", sessionId, answer} up to the await inside handlers.nextStep;
\* the answer is only tested for presence
wsAnswer(id, answer) ==
    IF Falsy(id) \/ Falsy(answer)
    THEN Result(sessions, NoCall, << >>)
    ELSE IF ~Known(id)
    THEN Result(sessions, NoCall, WsError("Invalid session"))
    ELSE IF nextStepAsks(sessions[id])
    THEN Result(sessions, Call("ws", "answer", id, "nextStep"), << >>)
    ELSE Result(sessions, NoCall, WsAnswerSends(nextStepKeep(sessions[id])))

\* {type: "answer"} after the await
wsAnswerResume(c, step) ==
    IF step.threw
    THEN Result(sessions, NoCall, WsError("oracle"))
    ELSE LET r == nextStepApply(sessions[c.sid], step)
         IN Result(Put(c.sid, r.session), NoCall, WsAnswerSends(r))

\* {type: "get_guess", sessionId}
wsGetGuess(id) ==
    IF Falsy(id)
    THEN Result(sessions, NoCall, << >>)
    ELSE Result(sessions, NoCall,
                <<WsMsg("guess", Undefined,
                        IF Known(id) THEN GuessOrNull(sessions[id]) ELSE Null,
                        Undefined)>>)

WsEnded == <<WsMsg("end", Undefined, Undefined, Undefined)>>

\* {type: "end", sessionId, outcome, actualAnswer} with handlers.finalize
wsEnd(id, outcome, actualAnswer, t, t2) ==
    IF Falsy(id) \/ Falsy(outcome)
    THEN Result(sessions, NoCall, << >>)
    ELSE IF ~Known(id)
    THEN Result(sessions, NoCall, WsEnded)
    ELSE Ended(id, outcome, actualAnswer, t, t2, WsEnded)

\* mutant of wsDefault: nothing is sent
wsDefault_Silent == Result(sessions, NoCall, << >>)

\* any other message type
wsDefault == Result(sessions, NoCall, WsError("Unknown message type"))

WsStart == \E id \in FreshIds, t \in DateNow : Begin(wsStart(id, t))

WsStartResume ==
    \E c \in Suspended("ws", "start", "nextStep") :
      \E step \in nextStepResults(sessions[c.sid]) : Finish(c, wsStartResume(c, step))

WsAnswer ==
    \E id \in AllIds \cup {Undefined}, answer \in {"yes", Undefined} :
      Begin(wsAnswer(id, answer))

WsAnswerResume ==
    \E c \in Suspended("ws", "answer", "nextStep") :
      \E step \in nextStepResults(sessions[c.sid]) : Finish(c, wsAnswerResume(c, step))

WsGetGuess == \E id \in AllIds \cup {Undefined} : Begin(wsGetGuess(id))

WsEnd ==
    \E id \in AllIds \cup {Undefined}, outcome \in Outcomes \cup {Undefined},
       actualAnswer \in ActualAnswers :
      \E tt \in EndClock(id, outcome, actualAnswer) :
        Begin(wsEnd(id, outcome, actualAnswer, tt[1], tt[2]))

WsUnknown == Begin(wsDefault)

NextWs ==
    \/ WsStart
    \/ WsStartResume
    \/ WsAnswer
    \/ WsAnswerResume
    \/ WsGetGuess
    \/ WsEnd
    \/ WsUnknown

\* ------------------------------------------------------------- /mcp adapter
\* handleToolCall, lines 481-494 and 497-505: the JSON-RPC reply
McpResult(question, guess, done) == <<Msg(0, "result", question, guess, done, Undefined)>>
\* mutant of McpError: a failure is reported as a result
McpError_AsResult(message) == <<Msg(0, "result", Undefined, Undefined, Undefined, Undefined)>>
McpError(message) == <<Msg(-32603, "error", Undefined, Undefined, Undefined, message)>>

\* tools.start up to the await
toolsStart(id, t) ==
    Result(Put(id, GameSession(t)), Call("mcp", "start", id, "start"), << >>)

\* tools.start, lines 204-206: a guess is dropped, a question is always set
toolsStartResume(c, step) ==
    IF step.threw
    THEN Result(sessions, NoCall, McpError("oracle"))
    ELSE LET q == IF Falsy(step.question)
                  THEN "Is it bigger than a microwave?" ELSE step.question
         IN Result(Put(c.sid, setLastQuestion(sessions[c.sid], q)), NoCall,
                   McpResult(q, Undefined, Undefined))

\* tools.answer up to the await (lines 209-215 / 221)
toolsAnswer(id, answer) ==
    IF ~Known(id)
    THEN Result(sessions, NoCall, McpError("Session not found"))
    ELSE IF Falsy(sessions[id].lastQuestion)
    THEN Result(sessions, NoCall, McpError("No pending question"))
    ELSE LET session == applyAnswer(sessions[id], sessions[id].lastQuestion, answer)
         IN Result(Put(id, session),
                   Call("mcp", "answer", id, IF session.done THEN "final" ELSE "next"),
                   << >>)

\* tools.answer, lines 215-218
toolsAnswerFinal(c, step, t) ==
    IF step.threw
    THEN Result(sessions, NoCall, McpError("oracle"))
    ELSE LET guessed == IF ~Falsy(step.guess)
                        THEN setGuess(sessions[c.sid], step.guess)
                        ELSE sessions[c.sid]
             session == endSession(guessed, t)
         IN Result(Put(c.sid, session), NoCall,
                   McpResult(Undefined, session.currentGuess, "true"))

\* tools.answer, lines 221-228
toolsAnswerNext(c, step) ==
    IF step.threw
    THEN Result(sessions, NoCall, McpError("oracle"))
    ELSE IF ~Falsy(step.guess)
    THEN Result(Put(c.sid, setGuess(sessions[c.sid], step.guess)), NoCall,
                McpResult(Undefined, step.guess, "false"))
    ELSE LET q == IF Falsy(step.question)
                  THEN "Can it fit in a backpack?" ELSE step.question
         IN Result(Put(c.sid, setLastQuestion(sessions[c.sid], q)), NoCall,
                   McpResult(q, Undefined, "false"))

\* tools.getGuess
toolsGetGuess(id) ==
    IF ~Known(id)
    THEN Result(sessions, NoCall, McpError("Session not found"))
    ELSE Result(sessions, NoCall, McpResult(Undefined, GuessOrNull(sessions[id]), Undefined))

\* tools.end
toolsEnd(id, outcome, actualAnswer, t, t2) ==
    IF ~Known(id)
    THEN Result(sessions, NoCall, McpError("Session not found"))
    ELSE Ended(id, outcome, actualAnswer, t, t2, McpResult(Undefined, Undefined, Undefined))

McpAnswerInputs(id) == IF Known(id) THEN AnswerInputs(Len(sessions[id].qas)) ELSE {"yes"}

McpStart == \E id \in FreshIds, t \in DateNow : Begin(toolsStart(id, t))

McpStartResume ==
    \E c \in Suspended("mcp", "start", "start") :
      \E step \in nextStepResults(sessions[c.sid]) : Finish(c, toolsStartResume(c, step))

McpAnswer == \E id \in AllIds : \E answer \in McpAnswerInputs(id) : Begin(toolsAnswer(id, answer))

McpAnswerFinal ==
    \E c \in Suspended("mcp", "answer", "final") :
      \E step \in nextStepResults(sessions[c.sid]), t \in DateNow :
        Finish(c, toolsAnswerFinal(c, step, t))

McpAnswerNext ==
    \E c \in Suspended("mcp", "answer", "next") :
      \E step \in nextStepResults(sessions[c.sid]) : Finish(c, toolsAnswerNext(c, step))

McpGetGuess == \E id \in AllIds : Begin(toolsGetGuess(id))

McpEnd ==
    \E id \in AllIds, outcome \in Outcomes, actualAnswer \in ActualAnswers :
      \E tt \in EndClock(id, outcome, actualAnswer) :
        Begin(toolsEnd(id, outcome, actualAnswer, tt[1], tt[2]))

NextMcp ==
    \/ McpStart
    \/ McpStartResume
    \/ McpAnswer
    \/ McpAnswerFinal
    \/ McpAnswerNext
    \/ McpGetGuess
    \/ McpEnd

\* ------------------------------------------------------------ specification
Next == NextHttp \/ NextWs \/ NextMcp

Spec == Init /\ [][Next]_vars

\* a deployment whose clients use the synchronous HTTP routes only
HttpSpec == Init /\ [][NextHttp]_vars

\* the continuation the event loop runs when the oracle call c settles
Continuation(c, step, t) ==
    CASE c.adapter = "http" /\ c.op = "start" -> postStartResume(c, step)
      [] c.adapter = "http" /\ c.at = "final" -> postAnswerFinal(c, step, t)
      [] c.adapter = "http" /\ c.at = "next" -> postAnswerNext(c, step)
      [] c.adapter = "ws" /\ c.op = "start" -> wsStartResume(c, step)
      [] c.adapter = "ws" /\ c.op = "answer" -> wsAnswerResume(c, step)
      [] c.adapter = "mcp" /\ c.op = "start" -> toolsStartResume(c, step)
      [] c.adapter = "mcp" /\ c.at = "final" -> toolsAnswerFinal(c, step, t)
      [] c.adapter = "mcp" /\ c.at = "next" -> toolsAnswerNext(c, step)

\* ---------------------------------------------------------- inbound messages
\* what JSON.parse makes of a frame: it throws, or yields null, or an object
Payloads == {"garbage", "null", "object"}

\* a /ws frame; a field the frame lacks is Undefined
WsIn(json, type, sessionId, answer, outcome, actualAnswer) ==
    [json |-> json, type |-> type, sessionId |-> sessionId, answer |-> answer,
     outcome |-> outcome, actualAnswer |-> actualAnswer]

WsKinds == {"start", "answer", "get_guess", "end"}

\* ws.on("message"): JSON.parse, then the switch on msg.type; a throw (of
\* JSON.parse, or of msg.type on null) goes to the catch, which sends an error
wsOnMessage(m, fresh, t, t2) ==
    IF m.json = "garbage"
    THEN Result(sessions, NoCall, WsError("SyntaxError"))
    ELSE IF m.json = "null"
    THEN Result(sessions, NoCall, WsError("TypeError"))
    ELSE CASE m.type = "start" -> wsStart(fresh, t)
           [] m.type = "answer" -> wsAnswer(m.sessionId, m.answer)
           [] m.type = "get_guess" -> wsGetGuess(m.sessionId)
           [] m.type = "end" -> wsEnd(m.sessionId, m.outcome, m.actualAnswer, t, t2)
           [] OTHER -> wsDefault

\* an HTTP request: the route and the fields of its body or query
HttpIn(route, sessionId, answer, outcome, actualAnswer) ==
    [route |-> route, sessionId |-> sessionId, answer |-> answer,
     outcome |-> outcome, actualAnswer |-> actualAnswer]

HttpRoutes == {"start", "answer", "guess", "end"}

\* the express routes
httpOnRequest(q, fresh, t, t2) ==
    CASE q.route = "start" -> postStart(fresh, t)
      [] q.route = "answer" -> postAnswer(q.sessionId, q.answer)
      [] q.route = "guess" -> getGuess(q.sessionId)
      [] q.route = "end" -> postEnd(q.sessionId, q.outcome, q.actualAnswer, t, t2)

\* a /mcp frame: a JSON-RPC request with its method and, for tools/call,
\* params {name, arguments}
McpIn(json, method, params, name, arguments, sessionId, answer, outcome, actualAnswer) ==
    [json |-> json, method |-> method, params |-> params, name |-> name,
     arguments |-> arguments, sessionId |-> sessionId, answer |-> answer,
     outcome |-> outcome, actualAnswer |-> actualAnswer, id |-> Undefined]

\* the JSON-RPC ids the clients put on their requests
RpcIds == {"i1", "i2"}

\* mutant of Correlated: every reply carries id null
Correlated_Null(i, r) ==
    [r EXCEPT !.out = IF r.out = << >> THEN << >>
                      ELSE [k \in 1..Len(r.out) |-> [r.out[k] EXCEPT !.id = Null]],
              !.call = IF r.call = NoCall THEN NoCall ELSE [r.call EXCEPT !.rpc = i]]

\* `id: message.id` in every frame a /mcp handler sends; the handler that
\* awaits keeps its message, so what it sends later carries the same id
Correlated(i, r) ==
    [r EXCEPT !.out = IF r.out = << >> THEN << >>
                      ELSE [k \in 1..Len(r.out) |-> [r.out[k] EXCEPT !.id = i]],
              !.call = IF r.call = NoCall THEN NoCall ELSE [r.call EXCEPT !.rpc = i]]

McpMethods == {"initialize", "tools/call", "tools/list"}
McpTools == {"validate", "start_game", "answer_question", "get_guess", "end_game"}

\* handleToolCall: the destructuring of message.params and the reads of
\* args.x throw a TypeError when params or arguments are missing; every throw
\* is answered by the catch with an error reply
handleToolCall(m, fresh, t, t2) ==
    IF ~m.params
    THEN Result(sessions, NoCall, McpError("TypeError"))
    ELSE IF m.name = "start_game"
    THEN toolsStart(fresh, t)
    ELSE IF m.name \notin McpTools
    THEN Result(sessions, NoCall, McpError("Unknown tool"))
    ELSE IF ~m.arguments
    THEN Result(sessions, NoCall, McpError("TypeError"))
    ELSE CASE m.name = "validate" ->
                Result(sessions, NoCall, McpResult(Undefined, Undefined, Undefined))
           [] m.name = "answer_question" -> toolsAnswer(m.sessionId, m.answer)
           [] m.name = "get_guess" -> toolsGetGuess(m.sessionId)
           [] m.name = "end_game" ->
                toolsEnd(m.sessionId, m.outcome, m.actualAnswer, t, t2)

\* attachMCP ws.on('message'): a frame that does not parse, or parses to
\* null, gets "Internal error" with id null; a method that is none of the
\* three gets no reply at all; every other reply has the id of the message
mcpOnMessage(m, fresh, t, t2) ==
    IF m.json # "object"
    THEN Correlated(Null, Result(sessions, NoCall, McpError("Internal error")))
    ELSE Correlated(m.id,
           CASE m.method = "initialize" ->
                  Result(sessions, NoCall, McpResult(Undefined, Undefined, Undefined))
             [] m.method = "tools/call" -> handleToolCall(m, fresh, t, t2)
             [] m.method = "tools/list" ->
                  Result(sessions, NoCall, McpResult(Undefined, Undefined, Undefined))
             [] OTHER -> Result(sessions, NoCall, << >>))

\* ------------------------------------------------- connections and the wire
\* the frames and requests the clients send
WsInbound ==
    {WsIn(j, Undefined, Undefined, Undefined, Undefined, Undefined) :
       j \in {"garbage", "null"}}
      \cup {WsIn("object", k, Undefined, Undefined, Undefined, Undefined) :
              k \in {"start", "ping", Undefined}}
      \cup {WsIn("object", "answer", id, answer, Undefined, Undefined) :
              id \in AllIds \cup {Undefined}, answer \in {"yes", Undefined}}
      \cup {WsIn("object", "get_guess", id, Undefined, Undefined, Undefined) :
              id \in AllIds \cup {Undefined}}
      \cup {WsIn("object", "end", id, Undefined, outcome, actualAnswer) :
              id \in AllIds \cup {Undefined}, outcome \in Outcomes \cup {Undefined},
              actualAnswer \in ActualAnswers}

HttpInbound ==
    {HttpIn("start", Undefined, Undefined, Undefined, Undefined)}
      \cup {HttpIn("answer", id, answer, Undefined, Undefined) :
              id \in AllIds \cup {Undefined}, answer \in {"yes", BadAnswer}}
      \cup {HttpIn("guess", id, Undefined, Undefined, Undefined) : id \in AllIds}
      \cup {HttpIn("end", id, Undefined, outcome, actualAnswer) :
              id \in AllIds, outcome \in Outcomes \cup {"draw"},
              actualAnswer \in ActualAnswers}

McpFrames ==
    {McpIn(j, Undefined, FALSE, Undefined, FALSE, Undefined, Undefined, Undefined, Undefined) :
       j \in {"garbage", "null"}}
      \cup {McpIn("object", method, FALSE, Undefined, FALSE,
                  Undefined, Undefined, Undefined, Undefined) :
              method \in {"initialize", "tools/list", "tools/call", "ping", Undefined}}
      \cup {McpIn("object", "tools/call", TRUE, name, arguments,
                  Undefined, Undefined, Undefined, Undefined) :
              name \in {"validate", "start_game", "get_guess", "rename"},
              arguments \in BOOLEAN}
      \cup {McpIn("object", "tools/call", TRUE, "answer_question", TRUE,
                  id, answer, Undefined, Undefined) :
              id \in AllIds \cup {Undefined}, answer \in {"yes", Undefined}}
      \cup {McpIn("object", "tools/call", TRUE, "get_guess", TRUE,
                  id, Undefined, Undefined, Undefined) : id \in AllIds}
      \cup {McpIn("object", "tools/call", TRUE, "end_game", TRUE,
                  id, Undefined, outcome, actualAnswer) :
              id \in AllIds, outcome \in Outcomes, actualAnswer \in ActualAnswers}

\* the frames with the ids the clients give them; a frame that does not
\* parse to an object has no id to read
McpInbound ==
    {m \in McpFrames : m.json # "object"}
      \cup {[m EXCEPT !.id = i] : m \in {f \in McpFrames : f.json = "object"}, i \in RpcIds}

\* the ids createSession may hand out to a message that starts a game
StartIds(starts) == IF starts THEN FreshIds ELSE {Undefined}

\* the readings of Date.now() of one handler: createSession reads it once,
\* an end handler as EndClock says, every other handler not at all
Readings(starts, ends, id, outcome, actualAnswer) ==
    IF starts THEN {<<t, 0>> : t \in DateNow}
    ELSE IF ends THEN EndClock(id, outcome, actualAnswer)
    ELSE {<<0, 0>>}

\* an inbound message or request is handled up to its await or to its end
Receive(adapter, kind, sid, rpc, r) ==
    /\ received < MaxMessages
    /\ sessions' = r.sessions
    /\ failed' = r.failed
    /\ Len(r.failed) <= MaxFailed
    /\ concluded' = r.concluded
    /\ IF r.call = NoCall
       THEN UNCHANGED inflight
       ELSE CanSuspend /\ inflight' = Suspend(r.call)
    /\ received' = received + 1
    /\ last' = [Exchange(adapter, kind, sid, r.out) EXCEPT !.rpc = rpc]
    /\ UNCHANGED <<connected, orphans>>

\* the suspended calls of adapter a are those of a connection now closed
Orphaned(a) ==
    LET S == {c \in BagToSet(inflight) : c.adapter = a \/ BagIn(c, orphans)}
    IN [c \in S |-> IF c.adapter = a THEN CopiesIn(c, inflight) ELSE CopiesIn(c, orphans)]

\* mutant of Settle: the call of a closed connection is cancelled
Settle_Cancelled(c, orphan, step, r) ==
    /\ IF orphan
       THEN BagIn(c, orphans)
       ELSE CopiesIn(c, inflight) > CopiesIn(c, orphans)
    /\ sessions' = IF orphan THEN sessions ELSE r.sessions
    /\ inflight' = Resume(c)
    /\ orphans' = IF orphan THEN orphans (-) SetToBag({c}) ELSE orphans
    /\ last' = [Exchange(c.adapter, "resume", c.sid, IF orphan THEN << >> ELSE r.out)
                  EXCEPT !.rpc = c.rpc, !.step = step]
    /\ UNCHANGED <<failed, concluded, connected, received>>

\* the continuation of the suspended call c runs to its end; what it sends
\* reaches nobody when its connection has closed (orphan)
Settle(c, orphan, step, r) ==
    /\ IF orphan
       THEN BagIn(c, orphans)
       ELSE CopiesIn(c, inflight) > CopiesIn(c, orphans)
    /\ sessions' = r.sessions
    /\ inflight' = Resume(c)
    /\ orphans' = IF orphan THEN orphans (-) SetToBag({c}) ELSE orphans
    /\ last' = [Exchange(c.adapter, "resume", c.sid, IF orphan THEN << >> ELSE r.out)
                  EXCEPT !.rpc = c.rpc, !.step = step]
    /\ UNCHANGED <<failed, concluded, connected, received>>

\* the Authorization header of an upgrade request
Auth(scheme, token) == [scheme |-> scheme, token |-> token]
ExpectedToken == "secret"
AuthHeaders ==
    {Auth(Undefined, Undefined), Auth("Basic", ExpectedToken),
     Auth("Bearer", "wrong"), Auth("Bearer", ExpectedToken)}

\* mutant of mcpUpgrade: every upgrade request is accepted
mcpUpgrade_Open(authHeader) == [accepted |-> TRUE, out |-> << >>]

\* server.on("upgrade") of attachMCP: 401, 403 or the connection
mcpUpgrade(authHeader) ==
    IF authHeader.scheme # "Bearer"
    THEN [accepted |-> FALSE,
          out |-> <<Msg(401, "http", Undefined, Undefined, Undefined, "Unauthorized")>>]
    ELSE IF authHeader.token # ExpectedToken
    THEN [accepted |-> FALSE,
          out |-> <<Msg(403, "http", Undefined, Undefined, Undefined, "Forbidden")>>]
    ELSE [accepted |-> TRUE, out |-> << >>]

\* the kind of a frame: its type or method when it parses to an object
WsKind(m) == IF m.json = "object" THEN m.type ELSE m.json
McpKind(m) ==
    IF m.json # "object" THEN m.json
    ELSE IF m.method = "tools/call" /\ m.params THEN m.name
    ELSE m.method

InitWire ==
    /\ sessions = << >>
    /\ inflight = EmptyBag
    /\ failed = << >>
    /\ concluded = {}
    /\ connected = {}
    /\ orphans = EmptyBag
    /\ received = 0
    /\ last = NoExchange

WireWsConnect ==
    /\ "ws" \notin connected
    /\ connected' = connected \cup {"ws"}
    /\ last' = Exchange("ws", "connect", Undefined, << >>)
    /\ UNCHANGED <<sessions, inflight, failed, concluded, orphans, received>>

\* mutant of WireWsClose: closing ends the sessions
WireWsClose_Concludes ==
    /\ "ws" \in connected
    /\ connected' = connected \ {"ws"}
    /\ orphans' = Orphaned("ws")
    /\ last' = Exchange("ws", "close", Undefined, << >>)
    /\ sessions' = [id \in DOMAIN sessions |-> endSession(sessions[id], 1)]
    /\ UNCHANGED <<inflight, failed, concluded, received>>

\* ws.on("close") of attachGameWebSocket
WireWsClose ==
    /\ "ws" \in connected
    /\ connected' = connected \ {"ws"}
    /\ orphans' = Orphaned("ws")
    /\ last' = Exchange("ws", "close", Undefined, << >>)
    /\ UNCHANGED <<sessions, inflight, failed, concluded, received>>

WireMcpConnect ==
    /\ "mcp" \notin connected
    /\ \E authHeader \in AuthHeaders :
         LET u == mcpUpgrade(authHeader) IN
           /\ connected' = IF u.accepted THEN connected \cup {"mcp"} ELSE connected
           /\ last' = Exchange("mcp", "connect", Undefined, u.out)
    /\ UNCHANGED <<sessions, inflight, failed, concluded, orphans, received>>

\* ws.on('close') of attachMCP
WireMcpClose ==
    /\ "mcp" \in connected
    /\ connected' = connected \ {"mcp"}
    /\ orphans' = Orphaned("mcp")
    /\ last' = Exchange("mcp", "close", Undefined, << >>)
    /\ UNCHANGED <<sessions, inflight, failed, concluded, received>>

WireWsMessage ==
    /\ "ws" \in connected
    /\ \E m \in WsInbound :
         \E fresh \in StartIds(WsKind(m) = "start") :
           \E tt \in Readings(WsKind(m) = "start", WsKind(m) = "end",
                              m.sessionId, m.outcome, m.actualAnswer) :
             Receive("ws", WsKind(m), IF WsKind(m) = "start" THEN fresh ELSE m.sessionId,
                     Undefined,
                     wsOnMessage(m, fresh, tt[1], tt[2]))

WireMcpMessage ==
    /\ "mcp" \in connected
    /\ \E m \in McpInbound :
         \E fresh \in StartIds(McpKind(m) = "start_game") :
           \E tt \in Readings(McpKind(m) = "start_game",
                              McpKind(m) = "end_game" /\ m.arguments,
                              m.sessionId, m.outcome, m.actualAnswer) :
             Receive("mcp", McpKind(m),
                     IF McpKind(m) = "start_game" THEN fresh ELSE m.sessionId,
                     m.id,
                     mcpOnMessage(m, fresh, tt[1], tt[2]))

WireHttpRequest ==
    \E q \in HttpInbound :
      \E fresh \in StartIds(q.route = "start") :
        \E tt \in Readings(q.route = "start", q.route = "end",
                           q.sessionId, q.outcome, q.actualAnswer) :
          Receive("http", q.route, IF q.route = "start" THEN fresh ELSE q.sessionId,
                  Undefined,
                  httpOnRequest(q, fresh, tt[1], tt[2]))

\* the oracle call of a suspended handler settles
WireResume ==
    \E c \in BagToSet(inflight), orphan \in BOOLEAN :
      \E step \in nextStepResults(sessions[c.sid]) :
        \E t \in (IF c.at = "final" THEN DateNow ELSE {0}) :
          Settle(c, orphan, step, Correlated(c.rpc, Continuation(c, step, t)))

WireNext ==
    \/ WireWsConnect
    \/ WireWsClose
    \/ WireMcpConnect
    \/ WireMcpClose
    \/ WireWsMessage
    \/ WireMcpMessage
    \/ WireHttpRequest
    \/ WireResume

\* the handlers with their connections, for a bounded number of messages
WireSpec == InitWire /\ [][WireNext]_vars

\* ------------------------------------------------------------------ claims
Live == DOMAIN sessions

\* the states of section 4.2
AwaitingTurn(id) == Falsy(sessions[id].lastQuestion) /\ ~sessions[id].done
TurnPending(id) == ~Falsy(sessions[id].lastQuestion) /\ ~sessions[id].done
Concluded(id) == sessions[id].done

\* what each adapter does with a submit-answer event, up to its await
SubmitAnswer(id, answer) == {postAnswer(id, answer), toolsAnswer(id, answer)}
AnswerEvent(id, answer) == SubmitAnswer(id, answer) \cup {wsAnswer(id, answer)}

\* C1: in every reachable state every session's history holds at most
\* MAX_QUESTIONS pairs, whatever the interleaving of suspended requests.
C1_HistoryWithinBudget ==
    \A id \in Live : Len(sessions[id].qas) <= MAX_QUESTIONS

\* done is true exactly when the budget is reached or an end event was handled
C2_DoneIff ==
    \A id \in Live :
      sessions[id].done <=> (Len(sessions[id].qas) >= MAX_QUESTIONS \/ id \in concluded)

\* a step that turns done true appends the pair that reaches the budget, or
\* handles an end event for the session
C2_DoneTurnsTrue ==
    \A id \in Live :
      (~sessions[id].done /\ sessions'[id].done) =>
         \/ /\ Len(sessions[id].qas) = MAX_QUESTIONS - 1
            /\ Len(sessions'[id].qas) = MAX_QUESTIONS
            /\ SubSeq(sessions'[id].qas, 1, MAX_QUESTIONS - 1) = sessions[id].qas
         \/ id \in concluded' \ concluded

\* C2: done is true exactly when the history has reached MAX_QUESTIONS or an
\* end event was handled, and it turns true only in the step that appends
\* the pair that brings the history to MAX_QUESTIONS or handles an end event.
C2_DoneExactly == [](C2_DoneIff) /\ [][C2_DoneTurnsTrue]_vars

\* C2 witness: a session that is done because its 20th answer was recorded,
\* with no end event handled for it
C2_Witness ==
    \E id \in Live :
      /\ sessions[id].done
      /\ Len(sessions[id].qas) = MAX_QUESTIONS
      /\ id \notin concluded

\* what the advance suspended as c returns when the oracle answers step
C3_FirstAdvance(c, step) ==
    IF c.adapter = "http"
    THEN computeNextApply(sessions[c.sid], step)
    ELSE nextStepApply(sessions[c.sid], step)

\* a step in which an advance settles leaves a state in which the next
\* advance (handlers.nextStep) asks no oracle and returns the same
C3_AdvanceTwice ==
    \A c \in Suspended("http", "start", "computeNext")
               \cup Suspended("ws", "start", "nextStep")
               \cup Suspended("ws", "answer", "nextStep") :
      \A step \in nextStepResults(sessions[c.sid]) \ {Threw} :
        LET first == C3_FirstAdvance(c, step) IN
          (sessions' = Put(c.sid, first.session) /\ inflight' = Resume(c)) =>
             /\ ~nextStepAsks(sessions'[c.sid])
             /\ nextStepKeep(sessions'[c.sid]).question = first.question
             /\ nextStepKeep(sessions'[c.sid]).guess = first.guess

\* C3: when an advance (computeNext, the /ws nextStep handler) has settled
\* with a question or with a guess, an advance that follows it at once asks
\* no oracle and returns the same question or guess.
C3_AdvanceIdempotent == [][C3_AdvanceTwice]_vars

\* the one message sent is the NoPendingQuestion error
C4_Refused(r) ==
    /\ Len(r.out) = 1
    /\ r.out[1].error \in {"No pending question"}

\* C4: a submit-answer event on a session without a pending question is
\* refused as NoPendingQuestion on every adapter, asks no oracle and leaves
\* the history as it is.
C4_NoPendingQuestion ==
    \A id \in Live : \A answer \in AnswerType :
      Falsy(sessions[id].lastQuestion) =>
        \A r \in AnswerEvent(id, answer) :
          /\ C4_Refused(r)
          /\ r.call = NoCall
          /\ r.sessions[id].qas = sessions[id].qas

\* C5: once an end event was handled for a session, an advance or
\* submit-answer event on it changes nothing of the session and asks no
\* oracle.
C5_NoOpAfterConclude ==
    \A id \in concluded : \A answer \in AnswerType :
      \A r \in AnswerEvent(id, answer) :
        /\ r.call = NoCall
        /\ r.sessions[id] = sessions[id]

\* a step leaves the history, pending question and guess of a done session
C6_Frozen ==
    \A id \in Live :
      sessions[id].done =>
        /\ sessions'[id].qas = sessions[id].qas
        /\ sessions'[id].lastQuestion = sessions[id].lastQuestion
        /\ sessions'[id].currentGuess = sessions[id].currentGuess

\* C6: once done is true no step changes the session's history, pending
\* question or current guess.
C6_ReadOnlyOnceDone == [][C6_Frozen]_vars

\* C7: submitAnswer on a session in TurnPending with history h, pending
\* question Q and answer a leaves history h with the one pair (Q, a) appended
\* and no pending question, and done exactly if the history has reached
\* MAX_QUESTIONS.
C7_SubmitAnswer ==
    \A id \in Live : \A answer \in AnswerType :
      TurnPending(id) =>
        \A r \in SubmitAnswer(id, answer) :
          /\ r.sessions[id].qas
               = sessions[id].qas \o <<QA(sessions[id].lastQuestion, answer)>>
          /\ r.sessions[id].lastQuestion = Undefined
          /\ r.sessions[id].done <=> (Len(r.sessions[id].qas) >= MAX_QUESTIONS)

\* C7 witness: the fresh session answered once: one recorded pair, no
\* pending question, not done, the answer's handler awaiting the oracle
C7_Witness ==
    \E id \in Live :
      /\ Len(sessions[id].qas) = 1
      /\ sessions[id].qas[1].question # Undefined
      /\ sessions[id].lastQuestion = Undefined
      /\ ~sessions[id].done
      /\ \E c \in BagToSet(inflight) : c.sid = id /\ c.op = "answer" /\ c.at = "next"

\* C8: the handling of the 20th answer sets done and asks no oracle, and no
\* later answer event on the session asks one.
C8_NoTwentyFirstAdvance ==
    \A id \in Live : \A answer \in AnswerType :
      \A r \in AnswerEvent(id, answer) :
        Len(r.sessions[id].qas) >= MAX_QUESTIONS =>
          r.sessions[id].done /\ r.call = NoCall

\* C9: when the oracle call of an advance fails, the session is still left
\* with a non-empty pending question and the caller gets a question, not an
\* error.
C9_FallbackOnFailure ==
    \A c \in BagToSet(inflight) :
      c.at # "final" =>
        LET r == Continuation(c, Threw, 1) IN
          /\ ~Falsy(r.sessions[c.sid].lastQuestion)
          /\ Len(r.out) >= 1
          /\ ~Falsy(r.out[1].question)
          /\ Falsy(r.out[1].error)

\* a step leaves an endedAt that is set
C10_EndedAtKept ==
    \A id \in Live :
      sessions[id].endedAt # 0 => sessions'[id].endedAt = sessions[id].endedAt

\* C10: concluding is idempotent and endedAt is written once: after it is
\* set, no step (a later end event included) changes it.
C10_EndedAtOnce == [][C10_EndedAtKept]_vars

\* what a reply carries: its non-empty questions and guesses, its errors
Questions(out) == {out[i].question : i \in 1..Len(out)} \ {Undefined, Null, ""}
Guesses(out) == {out[i].guess : i \in 1..Len(out)} \ {Undefined, Null, ""}
Errors(out) == {out[i].error : i \in 1..Len(out)} \ {Undefined, Null, ""}

\* every submit-answer, query-guess and end operation addressed to id, one of
\* each per adapter
OperationsOn(id) ==
    {postAnswer(id, "yes"), wsAnswer(id, "yes"), toolsAnswer(id, "yes"),
     getGuess(id), wsGetGuess(id), toolsGetGuess(id)}
      \cup {postEnd(id, outcome, "cat", 1, 1) : outcome \in Outcomes}
      \cup {wsEnd(id, outcome, "cat", 1, 1) : outcome \in Outcomes}
      \cup {toolsEnd(id, outcome, "cat", 1, 1) : outcome \in Outcomes}

\* C11: an operation addressed to an unknown session id is answered on every
\* adapter with an error and nothing else, asks no oracle, and leaves every
\* session and the failed-answers store as they are.
C11_UnknownSession ==
    \A id \in UnknownIds \ Live :
      \A r \in OperationsOn(id) :
        /\ Len(r.out) = 1
        /\ Errors(r.out) # {}
        /\ r.call = NoCall
        /\ r.sessions = sessions
        /\ r.failed = failed

\* C12: a /ws answer message for a session with a pending question appends
\* the pair (pending question, answer) to the history and makes a new
\* advance: it does not report the question that was already pending.
C12_WsAnswerSubmits ==
    \A id \in Live :
      TurnPending(id) =>
        LET r == wsAnswer(id, "yes") IN
          /\ r.sessions[id].qas
               = sessions[id].qas \o <<QA(sessions[id].lastQuestion, "yes")>>
          /\ r.call # NoCall
          /\ sessions[id].lastQuestion \notin Questions(r.out)

\* the three adapters' continuations of a start whose oracle call settles
StartContinuations(c, step) ==
    {postStartResume(c, step), wsStartResume(c, step), toolsStartResume(c, step)}

\* C13: the same event with the same oracle reply leaves the same session
\* state and the same question/guess payload on the three adapters: for a
\* submitted answer up to the oracle call, and for a start when it settles.
C13_AdaptersAgree ==
    /\ \A id \in Live :
         \A r1, r2 \in AnswerEvent(id, "yes") :
           /\ r1.sessions = r2.sessions
           /\ (r1.call = NoCall) <=> (r2.call = NoCall)
    /\ \A c \in BagToSet(inflight) :
         c.op = "start" =>
           \A step \in nextStepResults(sessions[c.sid]) \ {Threw} :
             \A r1, r2 \in StartContinuations(c, step) :
               /\ r1.sessions = r2.sessions
               /\ Questions(r1.out) = Questions(r2.out)
               /\ Guesses(r1.out) = Guesses(r2.out)

\* C14: the reply to a start carries the first step: when the oracle returns
\* a question, that non-empty question, which is the session's pending one;
\* when it returns a guess, that guess, which is the session's current guess;
\* never neither.
C14_StartCarriesStep ==
    \A c \in BagToSet(inflight) :
      c.op = "start" =>
        \A step \in nextStepResults(sessions[c.sid]) \ {Threw} :
          LET r == Continuation(c, step, 0) IN
            /\ Questions(r.out) \cup Guesses(r.out) # {}
            /\ ~Falsy(step.guess) =>
                 /\ Guesses(r.out) = {step.guess}
                 /\ r.sessions[c.sid].currentGuess = step.guess
            /\ ~Falsy(step.question) =>
                 /\ Questions(r.out) = {step.question}
                 /\ r.sessions[c.sid].lastQuestion = step.question

\* the write of one oracle step: the guess it yields and nothing else, or
\* else a non-empty pending question and nothing else
WritesOne(before, after, step) ==
    IF ~Falsy(step.guess)
    THEN after = setGuess(before, step.guess)
    ELSE /\ ~Falsy(after.lastQuestion)
         /\ after = setLastQuestion(before, after.lastQuestion)

\* C15: an advance whose oracle call settles writes exactly one of the
\* pending question and the current guess, and the payload sent for it
\* carries exactly one of question and guess.
C15_QuestionXorGuess ==
    \A c \in BagToSet(inflight) :
      c.at # "final" =>
        \A step \in nextStepResults(sessions[c.sid]) \ {Threw} :
          LET r == Continuation(c, step, 0) IN
            /\ WritesOne(sessions[c.sid], r.sessions[c.sid], step)
            /\ Cardinality(Questions(r.out)) + Cardinality(Guesses(r.out)) = 1

\* the kinds of a query-guess on the three adapters
GuessKinds == {"guess", "get_guess"}

\* one successful reply that carries guess g
GuessReply(exchange, g) ==
    /\ Len(exchange.out) = 1
    /\ exchange.out[1].guess = g
    /\ Errors(exchange.out) = {}
    /\ exchange.out[1].type = CASE exchange.adapter = "http" -> "json"
                                [] exchange.adapter = "ws" -> "guess"
                                [] exchange.adapter = "mcp" -> "result"
    /\ exchange.adapter = "http" => exchange.out[1].code = 200

\* C16: a query-guess on an existing session that never received a guess is
\* answered, on each adapter, with one successful reply whose guess is null.
C16_NullGuess ==
    (/\ last.kind \in GuessKinds
     /\ Known(last.sid)
     /\ sessions[last.sid].currentGuess = Undefined)
      => GuessReply(last, Null)

\* C16 witness: a query-guess was just answered with null for a session
\* that has a pending question and no guess
C16_Witness ==
    /\ last.kind \in GuessKinds
    /\ Known(last.sid)
    /\ sessions[last.sid].currentGuess = Undefined
    /\ ~Falsy(sessions[last.sid].lastQuestion)
    /\ GuessReply(last, Null)

\* a step that handles a query-guess leaves the sessions, the suspended
\* calls and the failed-answers store as they are and, for a session that
\* exists, replies with its current guess
C17_GetGuessStep ==
    last'.kind \in GuessKinds =>
      /\ UNCHANGED <<sessions, inflight, failed, concluded>>
      /\ Known(last'.sid) =>
           GuessReply(last', IF sessions[last'.sid].currentGuess = Undefined
                             THEN Null ELSE sessions[last'.sid].currentGuess)

\* C17: a get-guess event returns the session's current guess, changes no
\* field of any session nor the set of sessions, and asks no oracle.
C17_GetGuessReadOnly == [][C17_GetGuessStep]_vars

\* C17 witness: a query-guess was just answered with the guess the oracle
\* made for the session
C17_Witness ==
    /\ last.kind \in GuessKinds
    /\ Known(last.sid)
    /\ sessions[last.sid].currentGuess = "Ga"
    /\ GuessReply(last, "Ga")

\* a step that closes a connection leaves every session as it is
C18_CloseStep ==
    last'.kind = "close" => UNCHANGED <<sessions, failed, concluded, inflight>>

\* a session is done only by the budget or by an end event
C18_DoneCause ==
    \A id \in Live :
      sessions[id].done => (Len(sessions[id].qas) >= MAX_QUESTIONS \/ id \in concluded)

\* C18: closing a streaming connection changes no field of any session, and
\* a session is done only through the question budget or an end event.
C18_CloseKeepsSessions == [](C18_DoneCause) /\ [][C18_CloseStep]_vars

\* C18 witness: the /ws connection has just closed while the handler of its
\* start was suspended; the session is there, not done, not ended
C18_Witness ==
    /\ last.kind = "close"
    /\ last.adapter = "ws"
    /\ \E c \in BagToSet(orphans) :
         /\ c.adapter = "ws"
         /\ ~sessions[c.sid].done
         /\ sessions[c.sid].endedAt = 0

\* the kinds of exchange that are not a /ws frame of an unknown type
WsKnown == WsKinds \cup {"resume", "connect", "close"}

\* a step that handles a /ws frame of an unknown type sends one error,
\* changes nothing of the sessions and leaves the connection open
C19_UnknownKindStep ==
    (last'.adapter = "ws" /\ last'.kind \notin WsKnown) =>
      /\ Len(last'.out) = 1
      /\ last'.out[1].type = "error"
      /\ Errors(last'.out) # {}
      /\ UNCHANGED <<sessions, inflight, failed, concluded>>
      /\ "ws" \in connected'

\* C19: on /ws a message whose type is not start, answer, get_guess or end
\* gets an error notification, changes no session state and leaves the
\* connection open.
C19_UnknownKindError == [][C19_UnknownKindStep]_vars

\* C19 witness: a frame of type "ping" was just answered with an error; a
\* session exists and the connection is open
C19_Witness ==
    /\ last.adapter = "ws"
    /\ last.kind = "ping"
    /\ Errors(last.out) # {}
    /\ Live # {}
    /\ "ws" \in connected

\* frames that do not parse, or lack a field their type or method requires,
\* or name a method that does not exist
WsMalformed(m) ==
    \/ m.json # "object"
    \/ m.type = "answer" /\ (Falsy(m.sessionId) \/ Falsy(m.answer))
    \/ m.type = "get_guess" /\ Falsy(m.sessionId)
    \/ m.type = "end" /\ (Falsy(m.sessionId) \/ Falsy(m.outcome))

McpMalformed(m) ==
    \/ m.json # "object"
    \/ m.method \notin McpMethods
    \/ m.method = "tools/call" /\ ~m.params
    \/ m.method = "tools/call" /\ m.name \in McpTools \ {"start_game"} /\ ~m.arguments
    \/ m.method = "tools/call" /\ m.name = "answer_question"
         /\ (Falsy(m.sessionId) \/ Falsy(m.answer))

\* C20: every malformed frame is answered with an error on its adapter; none
\* is dropped without a reply.
C20_MalformedAnswered ==
    /\ \A m \in WsInbound :
         WsMalformed(m) => Errors(wsOnMessage(m, Undefined, 0, 0).out) # {}
    /\ \A m \in McpInbound :
         McpMalformed(m) => Errors(mcpOnMessage(m, Undefined, 0, 0).out) # {}

\* C21: on /mcp every reply to a request that carries the id i (initialize,
\* tools/list, tools/call; result or error; sent at once or when the
\* awaited oracle call settles, in whatever order the calls settle) carries
\* the id i unchanged.
C21_IdEchoed ==
    (last.adapter = "mcp" /\ last.rpc \in RpcIds) =>
      \A k \in 1..Len(last.out) : last.out[k].id = last.rpc

\* the tool call of request i2 is answered with id i2 while the call of
\* request i1 of the same connection is still awaiting the oracle
C21_Witness ==
    /\ last.adapter = "mcp"
    /\ last.kind \in McpTools
    /\ last.rpc = "i2"
    /\ Len(last.out) = 1
    /\ last.out[1].id = "i2"
    /\ \E c \in BagToSet(inflight) :
         c.adapter = "mcp" /\ c.rpc = "i1" /\ ~BagIn(c, orphans)

\* the two forms of a JSON-RPC reply
IsResult(msg) == msg.type = "result" /\ msg.error = Undefined
IsError(msg) ==
    msg.type = "error" /\ msg.code \in Int /\ msg.code # 0 /\ msg.error # Undefined
OneReply(out) == Len(out) = 1 /\ (IsResult(out[1]) # IsError(out[1]))

\* the tool calls the handlers cannot carry out: no params, an unknown
\* tool, an unknown session, no pending question
McpFails(m) ==
    \/ ~m.params
    \/ m.name \notin McpTools
    \/ m.name \in {"answer_question", "get_guess", "end_game"} /\ ~m.arguments
    \/ m.name \in {"answer_question", "get_guess", "end_game"} /\ ~Known(m.sessionId)
    \/ m.name = "answer_question" /\ Known(m.sessionId)
         /\ Falsy(sessions[m.sessionId].lastQuestion)

\* C22: every tools/call on an open /mcp connection gets exactly one reply,
\* a result or an error with a numeric code and a message, never both: the
\* handler either replies once at once or awaits the oracle without
\* replying and replies once when the call settles. A call that cannot be
\* carried out (unknown tool, unknown session, no pending question, oracle
\* failure) gets the error form, never a result.
C22_OneReply ==
    /\ \A m \in McpInbound :
         (m.json = "object" /\ m.method = "tools/call") =>
           \A fresh \in StartIds(McpKind(m) = "start_game") :
             \A tt \in Readings(McpKind(m) = "start_game",
                                McpKind(m) = "end_game" /\ m.arguments,
                                m.sessionId, m.outcome, m.actualAnswer) :
               LET r == mcpOnMessage(m, fresh, tt[1], tt[2]) IN
                 IF r.call # NoCall
                 THEN r.out = << >> /\ ~McpFails(m)
                 ELSE OneReply(r.out) /\ (McpFails(m) => IsError(r.out[1]))
    /\ \A c \in BagToSet(inflight) :
         c.adapter = "mcp" =>
           \A step \in nextStepResults(sessions[c.sid]) :
             LET r == Correlated(c.rpc, Continuation(c, step, 1)) IN
               /\ r.call = NoCall
               /\ OneReply(r.out)
               /\ IF step.threw THEN IsError(r.out[1]) ELSE IsResult(r.out[1])
    /\ (last.adapter = "mcp" /\ last.kind \in McpTools \cup {"rename", "resume"}) =>
         Len(last.out) <= 1

\* answer_question on a session without a pending question was answered
\* with one error
C22_Witness ==
    /\ last.adapter = "mcp"
    /\ last.kind = "answer_question"
    /\ Known(last.sid)
    /\ OneReply(last.out)
    /\ last.out[1].error = "No pending question"

\* the frames of one method
McpRequests(method) == {m \in McpInbound : m.json = "object" /\ m.method = method}

\* C23: on a /mcp connection no tools/call is carried out before initialize
\* has been answered (on a connection that has just been accepted a
\* tools/call changes no session, awaits no oracle call and gets no result),
\* and initialize is answered at most once per connection (right after its
\* answer a further initialize gets no result).
C23_InitializeFirst ==
    /\ (last.adapter = "mcp" /\ last.kind = "connect" /\ "mcp" \in connected) =>
         \A m \in McpRequests("tools/call") :
           \A fresh \in StartIds(McpKind(m) = "start_game") :
             \A tt \in Readings(McpKind(m) = "start_game",
                                McpKind(m) = "end_game" /\ m.arguments,
                                m.sessionId, m.outcome, m.actualAnswer) :
               LET r == mcpOnMessage(m, fresh, tt[1], tt[2]) IN
                 /\ r.sessions = sessions
                 /\ r.call = NoCall
                 /\ \A k \in 1..Len(r.out) : ~IsResult(r.out[k])
    /\ (last.adapter = "mcp" /\ last.kind = "initialize" /\ last.out # << >>) =>
         \A m \in McpRequests("initialize") :
           \A k \in 1..Len(mcpOnMessage(m, Undefined, 0, 0).out) :
             ~IsResult(mcpOnMessage(m, Undefined, 0, 0).out[k])

C24_Step ==
    /\ \A authHeader \in AuthHeaders :
         LET u == mcpUpgrade(authHeader) IN
           /\ authHeader.scheme # "Bearer" =>
                ~u.accepted /\ Len(u.out) = 1 /\ u.out[1].code = 401
           /\ (authHeader.scheme = "Bearer" /\ authHeader.token # ExpectedToken) =>
                ~u.accepted /\ Len(u.out) = 1 /\ u.out[1].code = 403
    /\ (last'.adapter = "mcp" /\ last'.kind = "connect" /\ last'.out # << >>) =>
         /\ last'.out[1].code \in {401, 403}
         /\ "mcp" \notin connected'
         /\ UNCHANGED <<sessions, inflight, failed, concluded>>
    /\ (last'.adapter = "mcp" /\ received' # received) => "mcp" \in connected

\* C24: a /mcp connection attempt without a valid bearer token is rejected
\* when the connection is being established, with 401 when the header is
\* missing or is not a Bearer header and with 403 when the token is wrong;
\* the rejected attempt leaves no connection, creates and changes no
\* session, and a /mcp message is handled only on an accepted connection.
C24_BearerGate == [][C24_Step]_vars

\* an attempt with a wrong token was refused with 403 while a session exists
C24_Witness ==
    /\ last.adapter = "mcp"
    /\ last.kind = "connect"
    /\ Len(last.out) = 1
    /\ last.out[1].code = 403
    /\ "mcp" \notin connected
    /\ Live # {}

C25_Step ==
    \A id \in Live :
      /\ id \in DOMAIN sessions'
      /\ LET before == sessions[id].qas
             after == sessions'[id].qas
         IN /\ Len(after) >= Len(before)
            /\ SubSeq(after, 1, Len(before)) = before
            /\ Len(after) > Len(before) =>
                 /\ Len(after) = Len(before) + 1
                 /\ ~Falsy(sessions[id].lastQuestion)
                 /\ after[Len(after)].question = sessions[id].lastQuestion

\* C25: a session's history is append-only: across every step the previous
\* history is a prefix of the new one, a step appends at most one pair, and
\* the question of the appended pair is the question that was pending when
\* the answer was submitted.
C25_AppendOnly == [][C25_Step]_vars

\* two answers have been appended, to two different questions
C25_Witness ==
    \E id \in Live :
      /\ Len(sessions[id].qas) = 2
      /\ sessions[id].qas[1].question # sessions[id].qas[2].question

\* the end handlers of the three adapters
EndHandlers(id, outcome, actualAnswer, t, t2) ==
    {postEnd(id, outcome, actualAnswer, t, t2),
     wsEnd(id, outcome, actualAnswer, t, t2),
     toolsEnd(id, outcome, actualAnswer, t, t2)}

\* the handlers of every other event, up to their await or to their end,
\* and the continuations of the suspended ones
OtherHandlers ==
    UNION {{postAnswer(id, "yes"), wsAnswer(id, "yes"), toolsAnswer(id, "yes"),
            getGuess(id), wsGetGuess(id), toolsGetGuess(id)} : id \in AllIds}
      \cup UNION {{postStart(id, 1), wsStart(id, 1), toolsStart(id, 1)} : id \in FreshIds}
      \cup UNION {{Continuation(c, step, 1) : step \in nextStepResults(sessions[c.sid])} :
                    c \in BagToSet(inflight)}

\* C26, as first stated: every handled end event with outcome user_won on
\* an existing session appends one entry to the missed-answers store.
C26_EveryUserWon ==
    \A id \in Live, actualAnswer \in ActualAnswers :
      \A tt \in EndClock(id, "user_won", actualAnswer) :
        \A r \in EndHandlers(id, "user_won", actualAnswer, tt[1], tt[2]) :
          Len(r.failed) = Len(failed) + 1

C26_Handlers ==
    /\ \A id \in AllIds, outcome \in Outcomes, actualAnswer \in ActualAnswers :
         \A tt \in EndClock(id, outcome, actualAnswer) :
           \A r \in EndHandlers(id, outcome, actualAnswer, tt[1], tt[2]) :
             r.failed = IF Known(id) /\ outcome = "user_won" /\ ~Falsy(actualAnswer)
                        THEN Append(failed, [answer |-> actualAnswer, timestamp |-> tt[2]])
                        ELSE failed
    /\ \A r \in OtherHandlers : r.failed = failed

C26_Step ==
    failed' # failed =>
         /\ Len(failed') = Len(failed) + 1
         /\ SubSeq(failed', 1, Len(failed)) = failed
         /\ ~Falsy(failed'[Len(failed')].answer)
         /\ UNCHANGED inflight
         /\ \E id \in Live : sessions'[id].done /\ id \in concluded'

\* C26, amended: the missed-answers store is written exactly on a session
\* end whose outcome is user_won and that names the actual answer: every
\* handled end event with outcome user_won and a non-empty actualAnswer on
\* an existing session appends one entry (the answer and a timestamp); an
\* end with user_won and no actualAnswer, an end with ai_won, an end on an
\* unknown session and every other event (start, answer, get-guess, the
\* return of an oracle call) leave the store as it is.
C26_WrittenOnNamedAnswer == []C26_Handlers /\ [][C26_Step]_vars

\* an ended session and the one entry its end has appended
C26_Witness ==
    /\ Len(failed) = 1
    /\ failed[1].answer = "cat"
    /\ \E id \in Live : sessions[id].done /\ id \in concluded

\* the oracle calls in flight for the session id, each with its copies
InFlightFor(id) ==
    LET S == {c \in BagToSet(inflight) : c.sid = id}
    IN [c \in S |-> CopiesIn(c, inflight)]

\* C27: nothing serializes the requests against one session: while an
\* oracle call is in flight for a session that has no pending question, a
\* further advance issues a second oracle call for the same turn, and
\* whichever call returns writes its own question or guess over what the
\* session holds, so what remains is what the last returning call wrote.
C27_LastWriteWins ==
    \A id \in Live :
      /\ (AwaitingTurn(id) /\ InFlightFor(id) # EmptyBag) =>
           wsAnswer(id, "yes").call # NoCall
      /\ \A c \in BagToSet(InFlightFor(id)) :
           c.at # "final" =>
             \A step \in nextStepResults(sessions[id]) \ {Threw} :
               LET after == Continuation(c, step, 1).sessions[id] IN
                 IF ~Falsy(step.guess) /\ ~(c.adapter = "mcp" /\ c.op = "start")
                 THEN after.currentGuess = step.guess
                 ELSE /\ ~Falsy(after.lastQuestion)
                      /\ ~Falsy(step.question) => after.lastQuestion = step.question

\* two oracle calls are in flight for the first turn of one session
C27_Witness ==
    \E id \in Live :
      /\ Len(sessions[id].qas) = 0
      /\ AwaitingTurn(id)
      /\ BagCardinality(InFlightFor(id)) = 2

\* what a /ws connection is told of the session id: the pending question an
\* advance re-sends and the guess get_guess reads
WsObserves(id) ==
    [question |-> Questions(wsAnswer(id, "yes").out),
     guess |-> Guesses(wsGetGuess(id).out)]

C28_Step ==
    \A c \in BagToSet(orphans) :
      (c.adapter = "ws" /\ orphans' = orphans (-) SetToBag({c})
         /\ inflight' = Resume(c)) =>
        /\ last'.out = << >>
        /\ LET step == last'.step IN
             /\ sessions' = Continuation(c, step, 0).sessions
             /\ ~step.threw =>
                  \/ /\ ~Falsy(step.guess)
                     /\ sessions'[c.sid].currentGuess = step.guess
                     /\ WsObserves(c.sid)'.guess = {step.guess}
                  \/ /\ Falsy(step.guess)
                     /\ ~Falsy(sessions'[c.sid].lastQuestion)
                     /\ WsObserves(c.sid)'.question = {sessions'[c.sid].lastQuestion}

\* C28: when a /ws connection closes while an oracle call it triggered is
\* in flight, the call is not cancelled: when it returns, its question or
\* guess is written to the session as if the connection were open, nothing
\* is sent, and what a connection then reads of the session id (the pending
\* question, the guess) is that result.
C28_AppliedUnheard == [][C28_Step]_vars

\* the call of a closed connection has returned: nothing was sent, the
\* session holds its question, and a new connection is open
C28_Witness ==
    /\ last.adapter = "ws"
    /\ last.kind = "resume"
    /\ last.out = << >>
    /\ "ws" \in connected
    /\ Known(last.sid)
    /\ ~Falsy(sessions[last.sid].lastQuestion)

C29_Step ==
    \A id \in Live :
      sessions[id].done =>
        /\ id \in DOMAIN sessions'
        /\ sessions'[id].done
        /\ \/ sessions'[id].lastQuestion = sessions[id].lastQuestion
           \/ Falsy(sessions'[id].lastQuestion)

\* C29: Concluded is terminal: once a session is done, no step of any
\* adapter sets done back to false, and no step installs a new pending
\* question on it.
C29_ConcludedTerminal == [][C29_Step]_vars

\* C30: a session used through the HTTP routes alone never gets stuck short
\* of conclusion: whenever it is not done and no request on it is in
\* flight, it has a pending question and a submit-answer is accepted (its
\* answer is recorded and the oracle is asked), also after the oracle has
\* answered a turn with a guess while done is false.
C30_NeverStuck ==
    \A id \in Live :
      (~sessions[id].done /\ BagToSet(InFlightFor(id)) = {}) =>
        /\ ~Falsy(sessions[id].lastQuestion)
        /\ postAnswer(id, "yes").call # NoCall

\* C31: whenever a session is done and no request on it is in flight, its
\* endedAt is set: a session that becomes done by the 20th answer ends up
\* with endedAt recorded, whatever the oracle returns or raises in the
\* final-guess step.
C31_EndedAtRecorded ==
    \A id \in Live :
      (sessions[id].done /\ BagToSet(InFlightFor(id)) = {}) =>
        sessions[id].endedAt # 0

====
